---- MODULE Spec2Model ----
(***************************************************************************)
(* Model of src/src/App.tsx: the ATmega328P Fast-PWM calculator.           *)
(*                                                                         *)
(* The component holds four inputs (useState) and one derived record,      *)
(* `calculation` (useMemo over the four inputs).  Every setter re-renders  *)
(* the component, and the render recomputes `calculation`, so each action  *)
(* below is "set one input, then recompute".                               *)
(*                                                                         *)
(* Numbers.  JavaScript numbers are IEEE doubles.  The model keeps         *)
(* clockFreq and targetFreq as integers (Hz), dutyCycle as an integer      *)
(* count of slider steps (DutyScale steps per percent), and the two        *)
(* quotients the code reports (actualFrequency, actualDutyCycle) as exact  *)
(* fractions in lowest terms.  A division by zero yields a non-finite      *)
(* double (Infinity, -Infinity or NaN) in the code; every comparison the   *)
(* code makes on such a value is false, which is what `topAccepted` says.  *)
(*                                                                         *)
(* Strings.  A string the code only builds is a TLA+ string.  A register's *)
(* `value` is kept as its sequence of characters, so that its digits can   *)
(* be read back.                                                           *)
(***************************************************************************)
EXTENDS Integers, Sequences, FiniteSets, TLC

VARIABLES clockFreq, targetFreq, dutyCycle, selectedTimer, calculation

vars == <<clockFreq, targetFreq, dutyCycle, selectedTimer, calculation>>

----------------------------------------------------------------------------
(* Bounds of the explored inputs.                                          *)

\* Values typed into the clock field: -MinusSpan .. MaxClockTyped.
MaxClockTyped == 20
\* Values typed into the target field: -MinusSpan .. MaxTargetTyped.
MaxTargetTyped == 5
\* How far below zero the typed values go.
MinusSpan == 2
\* Clocks around each counter's largest TOP: maxTop .. maxTop + BoundarySpan.
BoundarySpan == 2
\* Slider positions next to each end of the slider: 0 .. DutyNear and
\* DutyMax - DutyNear .. DutyMax.
DutyNear == 1

----------------------------------------------------------------------------
(* Program constants.                                                      *)

\* step="0.1": slider positions per percent.
DutyScale == 10
\* min="0" max="100": the slider's range, in percent.
DutyMinPercent == 0
DutyMaxPercent == 100
\* useState defaults.
DefaultClockFreq == 16000000
DefaultTargetFreq == 1000
DefaultDutyPercent == 50
DefaultTimer == 1
\* maxTop of a 16-bit and of an 8-bit counter.
MaxTop16 == 65535
MaxTop8 == 255

DutyMax == DutyMaxPercent * DutyScale

\* The three preset buttons under the clock field.
ClockButtons == {8000000, 16000000, 20000000}

\* The three timer buttons.
Timers == {0, 1, 2}

\* error: string | null.  The message is the one (Persian) literal of the
\* source: "the requested frequency is not achievable with this timer and
\* clock frequency; please change the frequency or the timer".
null == "null"
ErrorMessage == "frequency not achievable with this timer and clock"

----------------------------------------------------------------------------
(* Arithmetic.                                                             *)

Abs(x) == IF x < 0 THEN -x ELSE x

RECURSIVE GCD(_, _)
GCD(a, b) == IF b = 0 THEN a ELSE GCD(b, a % b)

\* The double p / q (q # 0), kept exactly, in lowest terms, den > 0.
Quotient(p, q) ==
  LET s == IF q < 0 THEN -1 ELSE 1
      g == GCD(Abs(p), Abs(q))
  IN  [num |-> (s * p) \div g, den |-> (s * q) \div g]

\* Math.round(p / q), q # 0: the integer nearest to p / q, a tie going up.
MathRound(p, q) ==
  LET s == IF q < 0 THEN -1 ELSE 1
      pp == s * p
      qq == s * q
      f == pp \div qq
      r == pp % qq
  IN  IF 2 * r >= qq THEN f + 1 ELSE f

Max(a, b) == IF a >= b THEN a ELSE b

RECURSIVE BitOr(_, _)
BitOr(a, b) ==
  IF a = 0 THEN b
  ELSE IF b = 0 THEN a
  ELSE Max(a % 2, b % 2) + 2 * BitOr(a \div 2, b \div 2)

----------------------------------------------------------------------------
(* Strings.                                                                *)

HexDigits == <<"0", "1", "2", "3", "4", "5", "6", "7",
               "8", "9", "a", "b", "c", "d", "e", "f">>

RECURSIVE digits16(_)
digits16(n) ==
  IF n < 16 THEN <<HexDigits[n + 1]>>
  ELSE digits16(n \div 16) \o <<HexDigits[(n % 16) + 1]>>

\* Number.prototype.toString(16): lower-case digits, a minus sign first
\* for a negative number.
toString16(n) == IF n < 0 THEN <<"-">> \o digits16(-n) ELSE digits16(n)

upperChar(c) ==
  CASE c = "a" -> "A" [] c = "b" -> "B" [] c = "c" -> "C"
    [] c = "d" -> "D" [] c = "e" -> "E" [] c = "f" -> "F"
    [] OTHER -> c

\* String.prototype.toUpperCase.
toUpperCase(chars) == [i \in 1..Len(chars) |-> upperChar(chars[i])]

\* parseInt(bits, 2) of a string of binary digits.
RECURSIVE parseInt2(_)
parseInt2(bits) ==
  IF bits = <<>> THEN 0
  ELSE 2 * parseInt2(SubSeq(bits, 1, Len(bits) - 1))
       + (IF bits[Len(bits)] = "1" THEN 1 ELSE 0)

\* The characters of a template literal's substitution, joined.
RECURSIVE Join(_)
Join(chars) == IF chars = <<>> THEN "" ELSE Head(chars) \o Join(Tail(chars))

----------------------------------------------------------------------------
(* The body of the useMemo callback.                                       *)

prescalers == <<1, 8, 64, 256, 1024>>

is16Bit(timer) == timer = 1

\* Variant: every timer taken for a 16-bit one.
maxTopWide(timer) == MaxTop16

maxTop(timer) == IF is16Bit(timer) THEN MaxTop16 ELSE MaxTop8

\* Variant: the "- 1" of the TOP formula forgotten.
topWithoutMinusOne(clk, tgt, N) == MathRound(clk, N * tgt)

\* const top = Math.round(clockFreq / (N * targetFreq)) - 1, for a finite
\* quotient (N * targetFreq # 0).
top(clk, tgt, N) == MathRound(clk, N * tgt) - 1

\* Variant: top >= 0 in place of top > 0.
topAcceptedFromZero(clk, tgt, timer, N) ==
  /\ N * tgt # 0
  /\ top(clk, tgt, N) >= 0
  /\ top(clk, tgt, N) <= maxTop(timer)

\* if (top > 0 && top <= maxTop): false for a non-finite top.
topAccepted(clk, tgt, timer, N) ==
  /\ N * tgt # 0
  /\ top(clk, tgt, N) > 0
  /\ top(clk, tgt, N) <= maxTop(timer)

\* Variant: the period taken as TOP counts instead of 1 + TOP.
actualFreqOverTop(clk, N, tp) == Quotient(clk, N * tp)

actualFreq(clk, N, tp) == Quotient(clk, N * (1 + tp))

\* const ocr = Math.round(((top + 1) * dutyCycle) / 100) - 1, dutyCycle in
\* slider steps.
ocr(tp, duty) == MathRound((tp + 1) * duty, 100 * DutyScale) - 1

\* const actualDuty = ((ocr + 1) / (top + 1)) * 100, of the ocr above.
actualDuty(oc, tp) == Quotient((oc + 1) * 100, tp + 1)

\* Timer 1: const csBits = N === 1 ? '001' : ... : '101'.
csBits1(N) ==
  IF N = 1 THEN <<"0", "0", "1">>
  ELSE IF N = 8 THEN <<"0", "1", "0">>
  ELSE IF N = 64 THEN <<"0", "1", "1">>
  ELSE IF N = 256 THEN <<"1", "0", "0">>
  ELSE <<"1", "0", "1">>

\* Timer 0: the first branch of selectedTimer === 0 ? (...) : (...).
csBits0(N) ==
  IF N = 1 THEN <<"0", "0", "1">>
  ELSE IF N = 8 THEN <<"0", "1", "0">>
  ELSE IF N = 64 THEN <<"0", "1", "1">>
  ELSE IF N = 256 THEN <<"1", "0", "0">>
  ELSE <<"1", "0", "1">>

\* Timer 2 written with Timer 0's table.
csBits2AsTimer0(N) == csBits0(N)

\* Timer 2: the second branch.
csBits2(N) ==
  IF N = 1 THEN <<"0", "0", "1">>
  ELSE IF N = 8 THEN <<"0", "1", "0">>
  ELSE IF N = 32 THEN <<"0", "1", "1">>
  ELSE IF N = 64 THEN <<"1", "0", "0">>
  ELSE IF N = 128 THEN <<"1", "0", "1">>
  ELSE IF N = 256 THEN <<"1", "1", "0">>
  ELSE <<"1", "1", "1">>

csBits(timer, N) ==
  IF timer = 1 THEN csBits1(N)
  ELSE IF timer = 0 THEN csBits0(N)
  ELSE csBits2(N)

tccra(timer) == IF timer = 0 THEN <<"0", "x", "2", "3">> ELSE <<"0", "x", "2", "3">>

\* `0x0${(8 | parseInt(csBits, 2)).toString(16)}`
tccrb(timer, N) ==
  <<"0", "x", "0">> \o toString16(BitOr(8, parseInt2(csBits(timer, N))))

\* `0x${n.toString(16).toUpperCase()}`
hexValue(n) == <<"0", "x">> \o toUpperCase(toString16(n))

\* Variant: the duty register written without Math.max.
dutyRegisterUnclamped(oc) == oc

\* The value written to the duty register: Math.max(0, ocr).
dutyRegister(oc) == Max(0, oc)

registers1(N, tp, oc) ==
  << [name |-> "TCCR1A", value |-> <<"0", "x", "8", "2">>,
      description |-> "COM1A1=1, WGM11=1 (Fast PWM, Non-inverting)"],
     [name |-> "TCCR1B",
      value |-> <<"0", "x", "1">> \o toString16(parseInt2(csBits(1, N))),
      description |-> "WGM13=1, WGM12=1, CS=" \o Join(csBits(1, N))
                      \o " (Prescaler " \o ToString(N) \o ")"],
     [name |-> "ICR1", value |-> hexValue(tp),
      description |-> "TOP value for frequency (" \o ToString(tp) \o " decimal)"],
     [name |-> "OCR1A", value |-> hexValue(dutyRegister(oc)),
      description |-> "Duty cycle value (" \o ToString(dutyRegister(oc))
                      \o " decimal)"] >>

registers02(timer, N, tp, oc) ==
  << [name |-> "TCCR" \o ToString(timer) \o "A", value |-> tccra(timer),
      description |-> "Fast PWM mode, OCnB non-inverting"],
     [name |-> "TCCR" \o ToString(timer) \o "B", value |-> tccrb(timer, N),
      description |-> "WGMn2=1, CS=" \o Join(csBits(timer, N))
                      \o " (Prescaler " \o ToString(N) \o ")"],
     [name |-> "OCR" \o ToString(timer) \o "A", value |-> hexValue(tp),
      description |-> "TOP value for frequency (" \o ToString(tp) \o " decimal)"],
     [name |-> "OCR" \o ToString(timer) \o "B",
      value |-> hexValue(dutyRegister(oc)),
      description |-> "Duty cycle value (" \o ToString(dutyRegister(oc))
                      \o " decimal)"] >>

registers(timer, N, tp, oc) ==
  IF timer = 1 THEN registers1(N, tp, oc) ELSE registers02(timer, N, tp, oc)

\* Variant: the ocr field without Math.max.
resultOcrUnclamped(oc) == oc

\* The ocr field of the result: Math.max(0, ocr).
resultOcr(oc) == Max(0, oc)

\* bestResult = {...}, for the prescaler N the loop accepted.
foundResult(clk, tgt, duty, timer, N) ==
  LET tp == top(clk, tgt, N)
      oc == ocr(tp, duty)
  IN  [timer |-> timer,
       prescaler |-> N,
       top |-> tp,
       ocr |-> resultOcr(oc),
       frequency |-> tgt,
       actualFrequency |-> actualFreq(clk, N, tp),
       dutyCycle |-> duty,
       actualDutyCycle |-> actualDuty(oc, tp),
       error |-> null,
       registers |-> registers(timer, N, tp, oc)]

\* Variant: the fallback record with every number zeroed, the requested
\* frequency and duty cycle included.
errorResultAllZero(tgt, duty, timer) ==
  [timer |-> timer,
   prescaler |-> 0,
   top |-> 0,
   ocr |-> 0,
   frequency |-> 0,
   actualFrequency |-> Quotient(0, 1),
   dutyCycle |-> 0,
   actualDutyCycle |-> Quotient(0, 1),
   error |-> ErrorMessage,
   registers |-> <<>>]

\* The record returned when bestResult is null.
errorResult(tgt, duty, timer) ==
  [timer |-> timer,
   prescaler |-> 0,
   top |-> 0,
   ocr |-> 0,
   frequency |-> tgt,
   actualFrequency |-> Quotient(0, 1),
   dutyCycle |-> duty,
   actualDutyCycle |-> Quotient(0, 1),
   error |-> ErrorMessage,
   registers |-> <<>>]

\* for (const N of prescalers) { ... break; } from the i-th prescaler on:
\* the index of the prescaler the loop stops at, 0 when it runs to the end.
RECURSIVE firstAccepted(_, _, _, _)
firstAccepted(clk, tgt, timer, i) ==
  IF i > Len(prescalers) THEN 0
  ELSE IF topAccepted(clk, tgt, timer, prescalers[i]) THEN i
  ELSE firstAccepted(clk, tgt, timer, i + 1)

\* Variant: the loop without its break; the last accepted prescaler wins.
RECURSIVE lastAccepted(_, _, _, _)
lastAccepted(clk, tgt, timer, i) ==
  IF i < 1 THEN 0
  ELSE IF topAccepted(clk, tgt, timer, prescalers[i]) THEN i
  ELSE lastAccepted(clk, tgt, timer, i - 1)

bestIndexWithoutBreak(clk, tgt, timer) ==
  lastAccepted(clk, tgt, timer, Len(prescalers))

\* The prescaler index bestResult is built for (0: bestResult stays null).
bestIndex(clk, tgt, timer) == firstAccepted(clk, tgt, timer, 1)

\* return bestResult || {...}
useMemo(clk, tgt, duty, timer) ==
  LET i == bestIndex(clk, tgt, timer)
  IN  IF i = 0 THEN errorResult(tgt, duty, timer)
      ELSE foundResult(clk, tgt, duty, timer, prescalers[i])

----------------------------------------------------------------------------
(* Inputs.                                                                 *)

ClockInputs ==
  ClockButtons
  \cup (-MinusSpan .. MaxClockTyped)
  \cup {maxTop(t) + k : t \in {0, 1}, k \in 0 .. BoundarySpan}

TargetInputs == (-MinusSpan .. MaxTargetTyped) \cup {50, 500, DefaultTargetFreq}

DutyInputs ==
  (DutyMinPercent * DutyScale .. DutyMinPercent * DutyScale + DutyNear)
  \cup (DutyMax - DutyNear .. DutyMax)
  \cup {25 * DutyScale, DefaultDutyPercent * DutyScale, 75 * DutyScale}

----------------------------------------------------------------------------
(* The component.                                                          *)

Init ==
  /\ clockFreq = DefaultClockFreq
  /\ targetFreq = DefaultTargetFreq
  /\ dutyCycle = DefaultDutyPercent * DutyScale
  /\ selectedTimer = DefaultTimer
  /\ calculation = useMemo(DefaultClockFreq, DefaultTargetFreq,
                           DefaultDutyPercent * DutyScale, DefaultTimer)

setClockFreq ==
  \E f \in ClockInputs :
    /\ clockFreq' = f
    /\ calculation' = useMemo(f, targetFreq, dutyCycle, selectedTimer)
    /\ UNCHANGED <<targetFreq, dutyCycle, selectedTimer>>

setTargetFreq ==
  \E f \in TargetInputs :
    /\ targetFreq' = f
    /\ calculation' = useMemo(clockFreq, f, dutyCycle, selectedTimer)
    /\ UNCHANGED <<clockFreq, dutyCycle, selectedTimer>>

\* Variant: dutyCycle missing from the useMemo dependency array, so that a
\* change of the slider keeps the memoised result.
setDutyCycleStale ==
  \E d \in DutyInputs :
    /\ dutyCycle' = d
    /\ UNCHANGED <<clockFreq, targetFreq, selectedTimer, calculation>>

setDutyCycle ==
  \E d \in DutyInputs :
    /\ dutyCycle' = d
    /\ calculation' = useMemo(clockFreq, targetFreq, d, selectedTimer)
    /\ UNCHANGED <<clockFreq, targetFreq, selectedTimer>>

setSelectedTimer ==
  \E t \in Timers :
    /\ selectedTimer' = t
    /\ calculation' = useMemo(clockFreq, targetFreq, dutyCycle, t)
    /\ UNCHANGED <<clockFreq, targetFreq, dutyCycle>>

Next ==
  \/ setClockFreq
  \/ setTargetFreq
  \/ setDutyCycle
  \/ setSelectedTimer

Spec == Init /\ [][Next]_vars

----------------------------------------------------------------------------
(* Properties.                                                             *)

\* The calculation succeeded.
Configured == calculation.error = null

\* The bound on TOP as the data sheet gives it: 16 bits for Timer 1, 8 bits
\* for Timers 0 and 2.
TopLimit == IF selectedTimer = 1 THEN 65535 ELSE 255

\* N gives a usable TOP for the current inputs: the quotient is finite and
\* 0 < round(clockFreq / (N * targetFreq)) - 1 <= TopLimit.
Usable(N) ==
  /\ N * targetFreq # 0
  /\ 0 < MathRound(clockFreq, N * targetFreq) - 1
  /\ MathRound(clockFreq, N * targetFreq) - 1 <= TopLimit

UsablePrescalers == {N \in {1, 8, 64, 256, 1024} : Usable(N)}

Least(S) == CHOOSE m \in S : \A n \in S : m <= n

\* The raw duty value of the current result: round((top + 1) * dutyCycle / 100) - 1.
RawOcr == MathRound((calculation.top + 1) * dutyCycle, 100 * DutyScale) - 1

\* Reading a register value back: the number a "0x" literal of upper-case
\* hexadecimal digits denotes, -1 for anything else.
HexDigitValue(c) ==
  CASE c = "0" -> 0 [] c = "1" -> 1 [] c = "2" -> 2 [] c = "3" -> 3
    [] c = "4" -> 4 [] c = "5" -> 5 [] c = "6" -> 6 [] c = "7" -> 7
    [] c = "8" -> 8 [] c = "9" -> 9 [] c = "A" -> 10 [] c = "B" -> 11
    [] c = "C" -> 12 [] c = "D" -> 13 [] c = "E" -> 14 [] c = "F" -> 15
    [] OTHER -> -1

RECURSIVE HexNumber(_)
HexNumber(chars) ==
  IF chars = <<>> THEN -1
  ELSE LET d == HexDigitValue(chars[Len(chars)])
           rest == SubSeq(chars, 1, Len(chars) - 1)
       IN  IF d < 0 THEN -1
           ELSE IF rest = <<>> THEN d
           ELSE IF HexNumber(rest) < 0 THEN -1
           ELSE 16 * HexNumber(rest) + d

HexLiteralValue(v) ==
  IF Len(v) < 3 \/ v[1] # "0" \/ v[2] # "x" THEN -1
  ELSE HexNumber(SubSeq(v, 3, Len(v)))

(* C1: for every input, the result's error is null if and only if its      *)
(* registers list is non-empty and its top is greater than 0.              *)
C1_ErrorIffNoRegisters ==
  Configured <=> (Len(calculation.registers) > 0 /\ calculation.top > 0)

\* An input whose TOP for prescaler 1 is exactly 0, which the loop rejects.
C1_Witness ==
  /\ ~Configured
  /\ targetFreq # 0
  /\ MathRound(clockFreq, targetFreq) - 1 = 0
  /\ calculation.registers = <<>>

(* C2: whenever some prescaler of 1, 8, 64, 256, 1024 gives a usable top,  *)
(* the result's prescaler is the smallest such one and the result's top is *)
(* the top computed for it.                                                *)
C2_SmallestUsablePrescaler ==
  UsablePrescalers # {} =>
    /\ calculation.prescaler = Least(UsablePrescalers)
    /\ calculation.top
         = MathRound(clockFreq, Least(UsablePrescalers) * targetFreq) - 1

\* Several prescalers are usable, the smallest of them is not the first
\* candidate, and it is the one chosen.
C2_Witness ==
  /\ Cardinality(UsablePrescalers) >= 2
  /\ ~Usable(1)
  /\ calculation.prescaler = Least(UsablePrescalers)
  /\ calculation.prescaler > 1

(* C3: in every result, successful or not, top is at most 65535 when       *)
(* selectedTimer is 1 and at most 255 when it is 0 or 2.                   *)
C3_TopWithinCounterWidth == calculation.top <= TopLimit

\* An 8-bit timer whose TOP for prescaler 1 is just beyond 255, so that a
\* larger prescaler is taken.
C3_Witness ==
  /\ selectedTimer \in {0, 2}
  /\ Configured
  /\ targetFreq # 0
  /\ MathRound(clockFreq, targetFreq) - 1 = 256
  /\ calculation.prescaler > 1
  /\ calculation.top <= 255

(* C4: for every duty cycle in [0, 100], 0 <= ocr <= top in the result;    *)
(* when round((top + 1) * dutyCycle / 100) - 1 is -1 the reported ocr is 0.*)
C4_OcrWithinTop ==
  (0 <= dutyCycle /\ dutyCycle <= 100 * DutyScale) =>
    /\ 0 <= calculation.ocr
    /\ calculation.ocr <= calculation.top
    /\ (Configured /\ RawOcr = -1 => calculation.ocr = 0)

\* A successful result whose raw duty value is -1 at a non-zero duty cycle.
C4_Witness ==
  /\ Configured
  /\ dutyCycle > 0
  /\ RawOcr = -1
  /\ calculation.ocr = 0

(* C5: the error result is returned exactly when no prescaler gives a      *)
(* usable top; in it error is non-null, registers is empty, top, ocr and   *)
(* actualFrequency are 0, and frequency and dutyCycle are the requested    *)
(* ones.                                                                   *)
C5_ErrorResult ==
  /\ ~Configured <=> UsablePrescalers = {}
  /\ ~Configured =>
       /\ calculation.error # null
       /\ calculation.registers = <<>>
       /\ calculation.top = 0
       /\ calculation.ocr = 0
       /\ calculation.actualFrequency.num = 0
       /\ calculation.frequency = targetFreq
       /\ calculation.dutyCycle = dutyCycle

\* A positive clock and target too slow for an 8-bit timer at any prescaler.
C5_Witness ==
  /\ ~Configured
  /\ clockFreq > 0
  /\ targetFreq > 0
  /\ dutyCycle > 0
  /\ MathRound(clockFreq, 1024 * targetFreq) - 1 > TopLimit

(* C6: in every successful result, actualDutyCycle equals                  *)
(* ((ocr + 1) / (top + 1)) * 100 for the ocr the result reports, so that   *)
(* it is not 0 at a duty cycle of 0.                                       *)
C6_ActualDutyOfReportedOcr ==
  Configured =>
    calculation.actualDutyCycle
      = Quotient((calculation.ocr + 1) * 100, calculation.top + 1)

(* C7, as stated: for clockFreq = 16,000,000, targetFreq = 1, dutyCycle =  *)
(* 50 and selectedTimer = 1 the result has prescaler 1024 and top 15624.   *)
C7_Inputs ==
  /\ clockFreq = 16000000
  /\ targetFreq = 1
  /\ dutyCycle = 50 * DutyScale
  /\ selectedTimer = 1

C7_Prescaler1024 ==
  C7_Inputs => calculation.prescaler = 1024 /\ calculation.top = 15624

(* C7, amended: for those inputs the ascending first-match search stops at *)
(* prescaler 256, with top = 62499 and actualFrequency = 16,000,000 /      *)
(* (256 * 62500) = 1; prescaler 1024 (top 15624) is usable too but is      *)
(* never reached.                                                          *)
C7_Prescaler256 ==
  C7_Inputs =>
    /\ calculation.prescaler = 256
    /\ calculation.top = 62499
    /\ calculation.actualFrequency = [num |-> 1, den |-> 1]
    /\ Usable(1024)
    /\ MathRound(clockFreq, 1024 * targetFreq) - 1 = 15624

C7_Witness == C7_Inputs /\ Configured

\* The value of the TCCRnB register for the current inputs with the other
\* 8-bit timer selected.
OtherTimerTccrb ==
  useMemo(clockFreq, targetFreq, dutyCycle, 2 - selectedTimer).registers[2].value

(* C8, as stated: for each prescaler of 1, 8, 64, 256, 1024 the            *)
(* clock-select code written into TCCRnB is the same for selectedTimer 0   *)
(* and selectedTimer 2.                                                    *)
C8_SameCodeOnTimers0And2 ==
  (Configured /\ selectedTimer \in {0, 2}) =>
    calculation.registers[2].value = OtherTimerTccrb

(* C8, amended: the clock-select code written into TCCRnB is the same for  *)
(* selectedTimer 0 and 2 only for prescalers 1 and 8 (0x09, 0x0a); for 64, *)
(* 256 and 1024 Timer 0 writes 0x0b, 0x0c, 0x0d and Timer 2 writes 0x0c,   *)
(* 0x0e, 0x0f.  The search never proposes 32 or 128.                       *)
C8_SameCodeOnlyFor1And8 ==
  (Configured /\ selectedTimer \in {0, 2}) =>
    /\ calculation.prescaler \in {1, 8, 64, 256, 1024}
    /\ (calculation.registers[2].value = OtherTimerTccrb)
         <=> calculation.prescaler \in {1, 8}
    /\ calculation.registers[2].value =
         <<"0", "x", "0">> \o
         << IF selectedTimer = 0
            THEN CASE calculation.prescaler = 1 -> "9"
                   [] calculation.prescaler = 8 -> "a"
                   [] calculation.prescaler = 64 -> "b"
                   [] calculation.prescaler = 256 -> "c"
                   [] calculation.prescaler = 1024 -> "d"
            ELSE CASE calculation.prescaler = 1 -> "9"
                   [] calculation.prescaler = 8 -> "a"
                   [] calculation.prescaler = 64 -> "c"
                   [] calculation.prescaler = 256 -> "e"
                   [] calculation.prescaler = 1024 -> "f" >>

\* Timer 2 at prescaler 64, where its code differs from Timer 0's.
C8_Witness ==
  /\ Configured
  /\ selectedTimer = 2
  /\ calculation.prescaler = 64
  /\ calculation.registers[2].value # OtherTimerTccrb

\* The register names the claim lists, by timer.
RegisterNames ==
  CASE selectedTimer = 1 -> <<"TCCR1A", "TCCR1B", "ICR1", "OCR1A">>
    [] selectedTimer = 0 -> <<"TCCR0A", "TCCR0B", "OCR0A", "OCR0B">>
    [] selectedTimer = 2 -> <<"TCCR2A", "TCCR2B", "OCR2A", "OCR2B">>

(* C9: every successful result has exactly four registers, named TCCR1A,   *)
(* TCCR1B, ICR1, OCR1A for Timer 1 and TCCRnA, TCCRnB, OCRnA, OCRnB for    *)
(* Timer n in {0, 2}; the third one's value is the hexadecimal form of the *)
(* result's top and the fourth one's that of the result's ocr.             *)
C9_FourRegisters ==
  Configured =>
    /\ Len(calculation.registers) = 4
    /\ \A i \in 1..4 : calculation.registers[i].name = RegisterNames[i]
    /\ HexLiteralValue(calculation.registers[3].value) = calculation.top
    /\ HexLiteralValue(calculation.registers[4].value) = calculation.ocr

\* A Timer 2 result whose raw duty value is -1 and whose top needs a
\* hexadecimal letter.
C9_Witness ==
  /\ Configured
  /\ selectedTimer = 2
  /\ RawOcr = -1
  /\ calculation.top >= 10
  /\ Len(calculation.registers) = 4

(* C10: for every successful result with positive clockFreq and            *)
(* targetFreq, abs(actualFrequency - targetFreq) / targetFreq <= 1 / top.  *)
(* With actualFrequency = num / den this is                                *)
(* abs(num - targetFreq * den) * top <= targetFreq * den.                  *)
C10_RelativeErrorBound ==
  (Configured /\ clockFreq > 0 /\ targetFreq > 0) =>
    LET f == calculation.actualFrequency
    IN  Abs(f.num - targetFreq * f.den) * calculation.top
          <= targetFreq * f.den

\* A successful result that misses the target frequency.
C10_Witness ==
  /\ Configured
  /\ clockFreq > 0
  /\ targetFreq > 0
  /\ calculation.actualFrequency # [num |-> targetFreq, den |-> 1]
  /\ calculation.actualFrequency
       = Quotient(clockFreq, calculation.prescaler * (1 + calculation.top))

\* The clock-select code of the data sheet for Timer 1: 1 -> 001, 8 -> 010,
\* 64 -> 011, 256 -> 100, 1024 -> 101.
ClockSelect1(N) ==
  CASE N = 1 -> 1 [] N = 8 -> 2 [] N = 64 -> 3 [] N = 256 -> 4 [] N = 1024 -> 5

(* C11: for selectedTimer = 1 the TCCR1B value has both mode-14            *)
(* mode-select bits set, WGM13 (bit 4) and WGM12 (bit 3), as its           *)
(* description says, and the clock-select code of the chosen prescaler in  *)
(* its low three bits: it is 0x18 OR'd with the clock-select code.         *)
C11_Tccr1bMode14 ==
  (Configured /\ selectedTimer = 1) =>
    /\ calculation.registers[2].name = "TCCR1B"
    /\ HexLiteralValue(calculation.registers[2].value)
         = 24 + ClockSelect1(calculation.prescaler)

(* C12: after any sequence of input changes the displayed calculation is   *)
(* the solver's result for the current four inputs; its timer, frequency   *)
(* and dutyCycle are the current inputs, and nothing of an earlier result  *)
(* survives.                                                               *)
C12_CalculationOfCurrentInputs ==
  /\ calculation = useMemo(clockFreq, targetFreq, dutyCycle, selectedTimer)
  /\ calculation.timer = selectedTimer
  /\ calculation.frequency = targetFreq
  /\ calculation.dutyCycle = dutyCycle

\* Every input has been changed from its default, and the result, an error
\* result now, shares no input-derived field with the first one.
C12_Witness ==
  /\ clockFreq # DefaultClockFreq
  /\ targetFreq # DefaultTargetFreq
  /\ dutyCycle # DefaultDutyPercent * DutyScale
  /\ selectedTimer # DefaultTimer
  /\ ~Configured
  /\ calculation.timer = selectedTimer
  /\ calculation.dutyCycle = dutyCycle
  /\ calculation.registers = <<>>

====
